---- MODULE Spec2Model ----
(***************************************************************************)
(* QR-Overlay (src/app.py): the tabular extractor read_csv_column_by_name, *)
(* the overlay compositor build_overlay_vector, the document merger        *)
(* place_qrs_on_pdf_stream and the /generate handler.                      *)
(*                                                                         *)
(* Strings are sequences of one-character strings.  Python floats are      *)
(* modelled as exact rationals <<numerator, denominator>>.                 *)
(***************************************************************************)
EXTENDS Integers, Sequences, FiniteSets, TLC

VARIABLES
    content,      \* file_storage: the bytes of the uploaded table
    pos,          \* file_storage: its read position
    column_name,  \* the column name passed to read_csv_column_by_name
    all_rows,     \* read_csv_column_by_name: the rows parsed by the last call
    results,      \* the outcome of every call of read_csv_column_by_name so far
    drawing,      \* build_overlay_vector: the drawing svg2rlg returned
    placed,       \* build_overlay_vector: what was drawn on the overlay canvas
    pc,           \* the position of the request being served
    document,     \* pdf_stream: the page sizes of the uploaded document
    pdf_pages,    \* place_qrs_on_pdf_stream: reader.pages, merged in place
    csv_rows,     \* place_qrs_on_pdf_stream: the column values
    qr_size_pts,  \* the side of the placement box
    x_pos,        \* the lower-left corner of the placement box
    y_pos,
    page_index,   \* place_qrs_on_pdf_stream: pages handled by the loop so far
    writer_pages, \* place_qrs_on_pdf_stream: the pages added to the writer
    merge_result, \* what place_qrs_on_pdf_stream returned or raised
    form,         \* generate_endpoint: request.files and request.form
    response,     \* generate_endpoint: the response sent
    preview_form,     \* preview_qr_endpoint: request.files and request.form
    preview_response, \* preview_qr_endpoint: the response sent
    ui,           \* the page: currentPage and the size, x and y inputs
    view,         \* renderPreview: the page size reported and the scaling
    page_rect,    \* renderPreview: where the page image was drawn
    qr_rect       \* renderPreview: where the symbol was drawn

extractVars == <<content, pos, column_name, all_rows, results>>
overlayVars == <<drawing, placed>>
boxVars == <<qr_size_pts, x_pos, y_pos>>
mergeVars == <<document, pdf_pages, csv_rows, page_index, writer_pages, merge_result>>
requestVars == <<form, response>>
previewVars == <<preview_form, preview_response>>
renderVars == <<ui, view, page_rect, qr_rect>>

vars == <<extractVars, overlayVars, boxVars, mergeVars, requestVars,
          previewVars, renderVars, pc>>

----------------------------------------------------------------------------
(* Bounds of the model *)

MaxRows == 2      \* data rows of a table (the example table has 3)
MaxSkip == 1      \* read positions 0..MaxSkip (and end of stream) before a call
MaxCalls == 2     \* calls of read_csv_column_by_name on one stream
MaxPages == 3     \* pages of a source document
MaxBox == 4       \* positive sides of the placement box tried on a drawing
MaxNatural == 4   \* natural width and height of a drawing
QrCapacity == 5   \* characters the largest symbol holds (scaled down)
MaxRenders == 3   \* calls of renderPreview that read the table, on one page load

----------------------------------------------------------------------------
(* Strings *)

Whitespace == {" ", "\t"}

sName == <<"N", "a", "m", "e">>
sCode == <<"C", "o", "d", "e">>
sCodeLower == <<"c", "o", "d", "e">>
sCodeTrail == <<"C", "o", "d", "e", " ">>
sCodeLead == <<" ", "C", "o", "d", "e">>
s123 == <<"1", "2", "3">>
s456 == <<"4", "5", "6">>
s456Padded == <<" ", "4", "5", "6", "\t">>
sBlank == <<" ">>
sEmpty == <<>>

\* str.lstrip()
RECURSIVE LStrip(_)
LStrip(s) ==
    IF s # <<>> /\ Head(s) \in Whitespace THEN LStrip(Tail(s)) ELSE s

\* str.rstrip()
RECURSIVE RStrip(_)
RStrip(s) ==
    IF s # <<>> /\ s[Len(s)] \in Whitespace
    THEN RStrip(SubSeq(s, 1, Len(s) - 1))
    ELSE s

\* str.strip()
Strip(s) == RStrip(LStrip(s))

\* the index (from 1) of the first occurrence of character d in s, 0 if none
RECURSIVE FindChar(_, _, _)
FindChar(s, d, k) ==
    IF k > Len(s) THEN 0
    ELSE IF s[k] = d THEN k
    ELSE FindChar(s, d, k + 1)

\* s split at every occurrence of the character d (always at least one piece)
RECURSIVE SplitOn(_, _)
SplitOn(s, d) ==
    LET k == FindChar(s, d, 1)
    IN  IF k = 0 THEN <<s>>
        ELSE <<SubSeq(s, 1, k - 1)>> \o SplitOn(SubSeq(s, k + 1, Len(s)), d)

----------------------------------------------------------------------------
(* read_csv_column_by_name *)

\* the number of occurrences of the character c in s
CountChar(s, c) == Cardinality({ k \in 1..Len(s) : s[k] = c })

\* csv.Sniffer.preferred
Preferred == <<",", "\t", ";", " ", ":">>

\* the characters of the model's files in ASCII order
AsciiOrder ==
    <<"\t", " ", "+", ",", "-", "0", "1", "2", "3", "4", "5", "6", "7", "8",
      "9", ":", ";", "A", "B", "C", "N", "a", "b", "c", "d", "e", "m", "o", "x">>

AsciiRank(c) == CHOOSE k \in 1..Len(AsciiOrder) : AsciiOrder[k] = c

\* the first element of the sequence seq that is in the set among
RECURSIVE FirstOf(_, _)
FirstOf(seq, among) ==
    IF Head(seq) \in among THEN Head(seq) ELSE FirstOf(Tail(seq), among)

\* csv.Sniffer().sniff(sample).delimiter with the fallback of the except
\* branch, for a sample of fewer than 10 lines without quote characters:
\* the candidates are the characters that occur the same positive number
\* of times on every non-empty line; no candidate raises csv.Error, and the
\* comma is used; of several candidates the first preferred one wins, then
\* the one with the most occurrences and the highest code
SniffDelimiter(sample) ==
    LET lines == SelectSeq(SplitOn(sample, "\n"), LAMBDA l : l # <<>>)
        freq(c) == CountChar(lines[1], c)
        candidates ==
            IF lines = <<>> THEN {}
            ELSE { c \in { lines[1][k] : k \in 1..Len(lines[1]) } :
                     \A n \in 1..Len(lines) : CountChar(lines[n], c) = freq(c) }
        preferred == { Preferred[k] : k \in 1..Len(Preferred) } \cap candidates
    IN  IF candidates = {} THEN ","
        ELSE IF Cardinality(candidates) = 1 THEN CHOOSE c \in candidates : TRUE
        ELSE IF preferred # {} THEN FirstOf(Preferred, candidates)
        ELSE CHOOSE c \in candidates :
                 \A o \in candidates :
                     \/ freq(o) < freq(c)
                     \/ freq(o) = freq(c) /\ AsciiRank(o) <= AsciiRank(c)

\* one line of the table as csv.reader yields it: a blank line is a row of
\* zero cells, any other line has one cell more than it has delimiters
ParseLine(line, delimiter) ==
    IF line = <<>> THEN <<>> ELSE SplitOn(line, delimiter)

\* list(csv.reader(io.StringIO(data), delimiter=delimiter)): the text after
\* the last newline is a row only if it is not empty
CsvReader(data, delimiter) ==
    LET pieces == SplitOn(data, "\n")
        lines == IF pieces[Len(pieces)] = <<>>
                 THEN SubSeq(pieces, 1, Len(pieces) - 1)
                 ELSE pieces
    IN  [k \in 1..Len(lines) |-> ParseLine(lines[k], delimiter)]

\* CleanedHeaders with the strip left out: [h for h in header]
RawHeaders(header) == [k \in 1..Len(header) |-> header[k]]

\* [h.strip() for h in header]
CleanedHeaders(header) == [k \in 1..Len(header) |-> Strip(header[k])]

\* cleaned_headers.index(name): the position (from 0, as in the source) of
\* the first header equal to name
RECURSIVE IndexOf(_, _, _)
IndexOf(headers, name, k) ==
    IF headers[k] = name THEN k - 1 ELSE IndexOf(headers, name, k + 1)

\* ColumnValueOfRow with the strip left out: out.append(row[column_index])
ColumnValueUnstripped(row, column_index) ==
    IF row = <<>> THEN sEmpty
    ELSE IF column_index >= Len(row) THEN sEmpty
    ELSE row[column_index + 1]

\* the body of the loop over all_rows[1:]: the value appended for one row
ColumnValueOfRow(row, column_index) ==
    IF row = <<>> THEN sEmpty
    ELSE IF column_index >= Len(row) THEN sEmpty
    ELSE Strip(row[column_index + 1])

\* ColumnValues with "if not row: continue": rows without cells are skipped
RECURSIVE ColumnValuesFrom(_, _, _)
ColumnValuesFrom(rows, column_index, k) ==
    IF k > Len(rows) THEN <<>>
    ELSE IF rows[k] = <<>> THEN ColumnValuesFrom(rows, column_index, k + 1)
    ELSE <<ColumnValueOfRow(rows[k], column_index)>>
         \o ColumnValuesFrom(rows, column_index, k + 1)

ColumnValuesSkippingEmpty(rows, column_index) ==
    ColumnValuesFrom(rows, column_index, 2)

\* the loop over all_rows[1:]: one value appended per data row
ColumnValues(rows, column_index) ==
    [k \in 1..(Len(rows) - 1) |-> ColumnValueOfRow(rows[k + 1], column_index)]

\* the rows read_csv_column_by_name parses out of the text it has read
ParseTable(data) == CsvReader(data, SniffDelimiter(data))

\* read_csv_column_by_name, from the parsed rows on: the list it returns or
\* the ValueError it raises
ReadCsvColumn(rows, name) ==
    IF rows = <<>> THEN [kind |-> "error", error |-> "CSV is empty"]
    ELSE LET cleaned_headers == CleanedHeaders(rows[1])
         IN  IF \A k \in 1..Len(cleaned_headers) : cleaned_headers[k] # Strip(name)
             THEN [kind |-> "error", error |-> "Column not found"]
             ELSE LET column_index == IndexOf(cleaned_headers, Strip(name), 1)
                  IN  [kind |-> "ok",
                       column_index |-> column_index,
                       values |-> ColumnValues(rows, column_index)]

\* file_storage.read(): everything from the read position to the end
StreamRead(bytes, position) == SubSeq(bytes, position + 1, Len(bytes))

----------------------------------------------------------------------------
(* Rational arithmetic *)

Abs(n) == IF n < 0 THEN -n ELSE n

RECURSIVE GCD(_, _)
GCD(a, b) == IF b = 0 THEN a ELSE GCD(b, a % b)

\* the rational n/d (d # 0) in lowest terms with a positive denominator
Rat(n, d) ==
    LET g == GCD(Abs(n), Abs(d))
        sgn == IF d < 0 THEN -1 ELSE 1
    IN  <<(sgn * n) \div g, (sgn * d) \div g>>

RInt(n) == <<n, 1>>
RAdd(a, b) == Rat(a[1] * b[2] + b[1] * a[2], a[2] * b[2])
RSub(a, b) == Rat(a[1] * b[2] - b[1] * a[2], a[2] * b[2])
RMul(a, b) == Rat(a[1] * b[1], a[2] * b[2])
RDiv(a, b) == Rat(a[1] * b[2], a[2] * b[1])
RLeq(a, b) == a[1] * b[2] <= b[1] * a[2]
RLess(a, b) == a[1] * b[2] < b[1] * a[2]
RMin(a, b) == IF RLeq(a, b) THEN a ELSE b
RHalf(a) == Rat(a[1], a[2] * 2)

----------------------------------------------------------------------------
(* build_overlay_vector *)

None == [none |-> TRUE]

\* a payload one character longer than the largest symbol holds
sTooLong == [k \in 1..(QrCapacity + 1) |-> "9"]

\* segno.make(qr_data, error='l'): the symbol, whose version (and so its
\* side in modules, 17 + 4 * version) grows with the payload; a payload
\* beyond the capacity of the largest symbol raises DataOverflowError
SegnoMake(qr_data) ==
    IF Len(qr_data) > QrCapacity
    THEN [raises |-> TRUE, error |-> "DataOverflowError"]
    ELSE [raises |-> FALSE,
          modules |-> 17 + 4 * (IF Len(qr_data) <= 3 THEN 1 ELSE 2)]

\* qr.save(svg_buffer, kind='svg', scale=1, border=0, ...): one unit per
\* module and no border, so the SVG is as wide and as high as the symbol
SaveSvg(qr) == [width |-> qr.modules, height |-> qr.modules]

\* svg2rlg(svg_buffer): the drawing of a well-formed SVG, None otherwise
Svg2Rlg(svg) ==
    IF svg = None THEN None
    ELSE [width |-> svg.width, height |-> svg.height]

\* ScaleFactor with max in the place of min
ScaleFactorMax(qr_size, natural_width, natural_height) ==
    LET a == RDiv(RInt(qr_size), RInt(natural_width))
        b == RDiv(RInt(qr_size), RInt(natural_height))
    IN  IF RLeq(a, b) THEN b ELSE a

\* scale_factor = min(qr_size / natural_width, qr_size / natural_height)
ScaleFactor(qr_size, natural_width, natural_height) ==
    RMin(RDiv(RInt(qr_size), RInt(natural_width)),
         RDiv(RInt(qr_size), RInt(natural_height)))

\* CenterOffset without the division by 2
CornerOffset(qr_size, rendered) == RSub(RInt(qr_size), rendered)

\* offset = (qr_size - rendered) / 2
CenterOffset(qr_size, rendered) == RHalf(RSub(RInt(qr_size), rendered))

\* the block under "if drawing:": the drawing scaled to fit the box and
\* drawn centred in it; nothing is drawn when there is no drawing
PlaceDrawing(d, qr_size, x, y) ==
    IF d = None THEN [drawn |-> FALSE]
    ELSE LET natural_width == d.width
             natural_height == d.height
             scale_factor == ScaleFactor(qr_size, natural_width, natural_height)
             rendered_width == RMul(RInt(natural_width), scale_factor)
             rendered_height == RMul(RInt(natural_height), scale_factor)
             offset_x == CenterOffset(qr_size, rendered_width)
             offset_y == CenterOffset(qr_size, rendered_height)
         IN  [drawn |-> TRUE,
              scale_x |-> scale_factor,
              scale_y |-> scale_factor,
              width |-> rendered_width,
              height |-> rendered_height,
              draw_x |-> RAdd(RInt(x), offset_x),
              draw_y |-> RAdd(RInt(y), offset_y)]

\* build_overlay_vector: the one-page overlay, or the exception of the encoder
BuildOverlayVector(page_width, page_height, qr_data, qr_size, x, y) ==
    LET qr == SegnoMake(qr_data)
    IN  IF qr.raises
        THEN [kind |-> "error", error |-> qr.error]
        ELSE [kind |-> "ok",
              overlay |-> [pagesize |-> <<page_width, page_height>>,
                           payload |-> qr_data,
                           symbol |-> PlaceDrawing(Svg2Rlg(SaveSvg(qr)),
                                                   qr_size, x, y)]]

----------------------------------------------------------------------------
(* place_qrs_on_pdf_stream *)

\* PyPDF2.PdfReader(pdf_stream).pages: one page object per page of the
\* document, nothing merged onto it yet
ReaderPages(doc) ==
    [k \in 1..Len(doc) |->
        [number |-> k,
         width |-> doc[k][1],
         height |-> doc[k][2],
         overlays |-> <<>>]]

\* "len(csv_rows) != len(reader.pages)" with < in the place of !=
FewerRows(rows, pages) == Len(rows) < Len(pages)

\* "if len(csv_rows) != len(reader.pages)"
LengthsDiffer(rows, pages) == Len(rows) # Len(pages)

\* HasPayload with the strip left out: "if row_data"
HasPayloadUnstripped(row_data) == row_data # <<>>

\* "if row_data and row_data.strip()"
HasPayload(row_data) == row_data # <<>> /\ Strip(row_data) # <<>>

\* page.merge_page(overlay_page): the overlay drawn on top of the page
MergePageInPlace(page, overlay) ==
    [page EXCEPT !.overlays = Append(@, overlay)]

\* the body of the loop for one (row_data, page): the page to add to the
\* writer, or the exception that ends the loop
ProcessPage(row_data, page, qr_size, x, y) ==
    IF HasPayload(row_data)
    THEN LET built == BuildOverlayVector(page.width, page.height, row_data,
                                         qr_size, x, y)
         IN  IF built.kind = "error"
             THEN [kind |-> "error", error |-> built.error]
             ELSE [kind |-> "ok", page |-> MergePageInPlace(page, built.overlay)]
    ELSE [kind |-> "ok", page |-> page]

----------------------------------------------------------------------------
(* The tables the model uploads *)

Headers ==
    { <<sName, sCode>>, <<sCodeLead, sCode>>, <<sName, sCodeLower>> }

ColumnNames == { sCode, sCodeTrail, sCodeLower }

RowChoices ==
    { <<>>, <<<<"A">>>>, <<<<"A">>, s123>>, <<<<"B">>, sEmpty>>,
      <<<<"C">>, s456>>, <<sBlank, s456Padded>> }

RowLists == UNION { [1..n -> RowChoices] : n \in 0..MaxRows }

\* a row written as one line of the file
RECURSIVE JoinCells(_, _)
JoinCells(row, delimiter) ==
    IF row = <<>> THEN <<>>
    ELSE IF Len(row) = 1 THEN row[1]
    ELSE row[1] \o <<delimiter>> \o JoinCells(Tail(row), delimiter)

\* the file: one line per row, each ended by a newline
RECURSIVE FormatTable(_, _)
FormatTable(rows, delimiter) ==
    IF rows = <<>> THEN <<>>
    ELSE JoinCells(rows[1], delimiter) \o <<"\n">>
         \o FormatTable(Tail(rows), delimiter)

ExampleRows ==
    << <<sName, sCode>>, <<<<"A">>, s123>>, <<<<"B">>, sEmpty>>, <<<<"C">>, s456>> >>

Files ==
    { FormatTable(<<h>> \o rs, d) : h \in Headers, rs \in RowLists, d \in {",", ";"} }
    \cup { <<>>, FormatTable(ExampleRows, ",") }

StartPositions(bytes) ==
    { p \in 0..MaxSkip : p <= Len(bytes) } \cup { Len(bytes) }

----------------------------------------------------------------------------
(* generate_endpoint *)

DefaultQrSize == 80
DefaultPos == 36

Digits == {"0", "1", "2", "3", "4", "5", "6", "7", "8", "9"}

DigitValue(c) ==
    CASE c = "0" -> 0 [] c = "1" -> 1 [] c = "2" -> 2 [] c = "3" -> 3
      [] c = "4" -> 4 [] c = "5" -> 5 [] c = "6" -> 6 [] c = "7" -> 7
      [] c = "8" -> 8 [] c = "9" -> 9

RECURSIVE DigitsValue(_)
DigitsValue(s) ==
    IF s = <<>> THEN 0
    ELSE 10 * DigitsValue(SubSeq(s, 1, Len(s) - 1)) + DigitValue(s[Len(s)])

IsDigits(s) == s # <<>> /\ \A k \in 1..Len(s) : s[k] \in Digits

\* float(text): the number written in text (surrounding whitespace and a
\* sign allowed), ValueError for any other text
ParseFloat(text) ==
    LET t == Strip(text)
        signed == t # <<>> /\ t[1] \in {"-", "+"}
        body == IF signed THEN Tail(t) ELSE t
    IN  IF IsDigits(body)
        THEN [ok |-> TRUE,
              value |-> IF signed /\ t[1] = "-"
                        THEN -DigitsValue(body) ELSE DigitsValue(body)]
        ELSE [ok |-> FALSE]

Absent == [present |-> FALSE]
Field(text) == [present |-> TRUE, text |-> text]

\* float(request.form.get(name, default))
FormFloat(field, default) ==
    IF field.present THEN ParseFloat(field.text)
    ELSE [ok |-> TRUE, value |-> default]

\* (request.form.get("csv_column", "") or "").strip()
FormColumn(field) == IF field.present THEN Strip(field.text) ELSE <<>>

Status(code, body) == [status |-> code, body |-> body]

----------------------------------------------------------------------------
(* make_qr and preview_qr_endpoint *)

\* make_qr(data, size_pts): the symbol as an image of size_pts x size_pts
\* pixels; qrcode raises DataOverflowError for a payload beyond the largest
\* symbol, and Image.resize raises ValueError for a side that is not positive
MakeQr(data, size_pts) ==
    IF Len(data) > QrCapacity
    THEN [raises |-> TRUE, error |-> "DataOverflowError"]
    ELSE IF size_pts <= 0
    THEN [raises |-> TRUE, error |-> "height and width must be > 0"]
    ELSE [raises |-> FALSE, image |-> [payload |-> data, side |-> size_pts]]

\* int(request.form.get(name, default)), for the whole numbers of the model
FormInt(field, default) ==
    IF field.present THEN ParseFloat(field.text)
    ELSE [ok |-> TRUE, value |-> default]

\* "page_num < 1 or page_num > len(csv_rows)"
PageOutOfRange(page_num, rows) == page_num < 1 \/ page_num > Len(rows)

\* csv_rows[page_num - 2]: one row too early, the last row for page 1
PreviewRowBefore(rows, page_num) ==
    IF page_num = 1 THEN rows[Len(rows)] ELSE rows[page_num - 1]

\* csv_rows[page_num - 1] (sequences here count from 1)
PreviewRow(rows, page_num) == rows[page_num]

\* preview_qr_endpoint from the call of read_csv_column_by_name on, given
\* what that call returned or raised
PreviewOfRows(got, page_num, qr_size) ==
    IF got.kind = "error" THEN Status(400, got.error)
    ELSE IF PageOutOfRange(page_num, got.values)
    THEN Status(400, "Invalid page number")
    ELSE LET qr_data == PreviewRow(got.values, page_num)
             made == MakeQr(qr_data, qr_size * 4)
         IN  IF ~HasPayload(qr_data) THEN Status(204, <<>>)
             ELSE IF made.raises THEN Status(400, made.error)
             ELSE Status(200, made.image)

----------------------------------------------------------------------------
(* The preview page: preview_endpoint, pdf_page_image and renderPreview *)

\* <canvas id="previewCanvas" width="800" height="800">
CanvasWidth == 800
CanvasHeight == 800

DecimalDigits == <<"0", "1", "2", "3", "4", "5", "6", "7", "8", "9">>

\* the text FormData.append sends for a whole number
RECURSIVE NumberText(_)
NumberText(n) ==
    IF n < 10 THEN <<DecimalDigits[n + 1]>>
    ELSE NumberText(n \div 10) \o <<DecimalDigits[(n % 10) + 1]>>

\* parseFloat(input.value || fallback)
JsParseFloat(text, fallback) ==
    ParseFloat(IF text = <<>> THEN NumberText(fallback) ELSE text)

\* preview_endpoint: the size it reports is the size of reader.pages[0]
PreviewEndpoint(pdf, doc) ==
    IF ~pdf THEN Status(400, "Missing PDF")
    ELSE IF doc = <<>> THEN Status(400, "IndexError")
    ELSE Status(200, [width |-> doc[1][1], height |-> doc[1][2],
                      page_count |-> Len(doc)])

\* pdf_page_image: the raster image of the page asked for
PdfPageImage(pdf, doc, page_num) ==
    IF ~pdf THEN Status(400, "Missing PDF")
    ELSE IF page_num \notin 1..Len(doc) THEN Status(400, "Failed to render page")
    ELSE Status(200, [page |-> page_num, size |-> doc[page_num]])

\* renderPreview: scale, scaledWidth, scaledHeight, offsetX, offsetY
ViewOf(pdfWidth, pdfHeight) ==
    LET scale == RMin(Rat(CanvasWidth, pdfWidth), Rat(CanvasHeight, pdfHeight))
        scaledWidth == RMul(RInt(pdfWidth), scale)
        scaledHeight == RMul(RInt(pdfHeight), scale)
    IN  [scale |-> scale,
         scaledWidth |-> scaledWidth,
         scaledHeight |-> scaledHeight,
         offsetX |-> RHalf(RSub(RInt(CanvasWidth), scaledWidth)),
         offsetY |-> RHalf(RSub(RInt(CanvasHeight), scaledHeight))]

\* renderPreview: the rectangle of ctx.drawImage(qrImg, ...)
QrRectangle(v, qrSize, x, y) ==
    LET qrScaled == RMul(RInt(qrSize), v.scale)
        xScaled == RMul(RInt(x), v.scale)
        yScaled == RMul(RInt(y), v.scale)
        yFlipped == RSub(RSub(v.scaledHeight, yScaled), qrScaled)
    IN  [left |-> RAdd(v.offsetX, xScaled),
         top |-> RAdd(v.offsetY, yFlipped),
         width |-> qrScaled,
         height |-> qrScaled]

----------------------------------------------------------------------------
(* Initial states *)

Letter == <<612, 792>>
A4 == <<595, 842>>

\* documents of 0..MaxPages pages, all of one size or of alternating sizes
Documents ==
    { [k \in 1..n |-> Letter] : n \in 0..MaxPages }
    \cup { [k \in 1..n |-> IF k % 2 = 1 THEN A4 ELSE Letter] : n \in 1..MaxPages }

RowValues == { sEmpty, sBlank, s123, s456Padded, sTooLong }

\* column values shorter than, as long as and longer than any document
RowSequences == UNION { [1..n -> RowValues] : n \in 0..(MaxPages + 1) }

IdleExtract ==
    /\ content = <<>>
    /\ pos = 0
    /\ column_name = <<>>
    /\ all_rows = <<>>
    /\ results = <<>>

IdleOverlay == drawing = None /\ placed = None

IdleBox == qr_size_pts = 0 /\ x_pos = 0 /\ y_pos = 0

IdleMerge ==
    /\ pdf_pages = <<>>
    /\ page_index = 0
    /\ writer_pages = <<>>
    /\ merge_result = None

IdleRequest == form = None /\ response = None

IdlePreview == preview_form = None /\ preview_response = None

IdleRender == ui = None /\ view = None /\ page_rect = None /\ qr_rect = None

InitExtract ==
    /\ pc = "extract"
    /\ content \in Files
    /\ pos \in StartPositions(content)
    /\ column_name \in ColumnNames
    /\ all_rows = <<>>
    /\ results = <<>>
    /\ document = <<>> /\ csv_rows = <<>>
    /\ IdleOverlay /\ IdleBox /\ IdleMerge /\ IdleRequest
    /\ IdlePreview /\ IdleRender

InitOverlay ==
    /\ pc = "overlay"
    /\ drawing \in [width : 1..MaxNatural, height : 1..MaxNatural]
    /\ placed = None
    /\ qr_size_pts \in (-1)..MaxBox
    /\ x_pos \in {0, 3}
    /\ y_pos \in {1}
    /\ document = <<>> /\ csv_rows = <<>>
    /\ IdleExtract /\ IdleMerge /\ IdleRequest
    /\ IdlePreview /\ IdleRender

InitMerge ==
    /\ pc = "merge_start"
    /\ document \in Documents
    /\ csv_rows \in RowSequences
    /\ qr_size_pts = 4 /\ x_pos = 1 /\ y_pos = 2
    /\ IdleExtract /\ IdleOverlay /\ IdleMerge /\ IdleRequest
    /\ IdlePreview /\ IdleRender

GenerateFiles ==
    { <<>>,
      FormatTable(ExampleRows, ","),
      FormatTable(<<<<sName, sCode>>, <<<<"A">>, sTooLong>>, <<<<"B">>, s123>>>>, ";"),
      FormatTable(<<<<sName, sCode>>, <<<<"A">>, s123>>, <<>>>>, ",") }

NumberTexts == { <<"4">>, <<"0">>, <<"-", "2">>, <<"a", "b", "c">>, <<>> }

Forms ==
    [pdf : BOOLEAN, csv : BOOLEAN,
     csv_column : {Absent, Field(sCodeTrail), Field(sBlank), Field(sCodeLower)},
     qr_size : {Absent} \cup { Field(t) : t \in NumberTexts },
     x_pos : {Absent, Field(<<"1">>), Field(<<"x">>)},
     y_pos : {Field(<<" ", "2">>), Field(<<>>)}]

InitGenerate ==
    /\ pc = "generate"
    /\ form \in Forms
    /\ response = None
    /\ content \in GenerateFiles
    /\ pos = 0
    /\ column_name = <<>> /\ all_rows = <<>> /\ results = <<>>
    /\ document \in { d \in Documents : Len(d) \in {2, 3} }
    /\ csv_rows = <<>>
    /\ IdleOverlay /\ IdleBox /\ IdleMerge
    /\ IdlePreview /\ IdleRender

PageTexts ==
    { <<"0">>, <<"1">>, <<"2">>, <<"3">>, <<"4">>, <<"-", "1">>, <<"x">> }

PreviewForms(column) ==
    [csv : BOOLEAN,
     csv_column : {Field(column)},
     page_num : {Absent} \cup { Field(t) : t \in PageTexts },
     qr_size : {Absent, Field(<<"4">>), Field(<<"0">>)}]

\* a preview request and a generate request for the same table and column
InitPreviewQr ==
    /\ pc = "generate"
    /\ \E column \in {sCodeTrail, sCodeLower} :
           /\ preview_form \in PreviewForms(column)
           /\ form = [pdf |-> TRUE, csv |-> TRUE,
                      csv_column |-> Field(column),
                      qr_size |-> Field(<<"4">>),
                      x_pos |-> Field(<<"1">>),
                      y_pos |-> Field(<<"2">>)]
    /\ preview_response = None
    /\ response = None
    /\ content \in GenerateFiles
    /\ pos = 0
    /\ column_name = <<>> /\ all_rows = <<>> /\ results = <<>>
    /\ document \in { d \in Documents : Len(d) \in {2, 3} }
    /\ csv_rows = <<>>
    /\ IdleOverlay /\ IdleBox /\ IdleMerge /\ IdleRender

InputTexts == { <<>>, <<"4">>, <<"3", "6">> }

\* the example table (no value for page 2) and a table with a value per page
RenderFiles ==
    { FormatTable(ExampleRows, ","),
      FormatTable(<<<<sName, sCode>>, <<<<"A">>, s123>>, <<<<"B">>, s456>>>>, ",") }

\* the page as loaded, with files chosen and the three number inputs filled
InitRender ==
    /\ pc = "render_idle"
    /\ ui \in [currentPage : {1}, totalPages : {1},
               pdfWidth : {612}, pdfHeight : {792},
               pdf : BOOLEAN, csv : BOOLEAN, column : {sCode},
               qr_size : {<<"4">>, <<"8", "0">>}, x_pos : InputTexts,
               y_pos : InputTexts]
    /\ view = None /\ page_rect = None /\ qr_rect = None
    /\ document \in Documents
    /\ content \in RenderFiles
    /\ pos = 0
    /\ column_name = <<>> /\ all_rows = <<>> /\ results = <<>>
    /\ csv_rows = <<>>
    /\ IdleOverlay /\ IdleBox /\ IdleMerge /\ IdleRequest /\ IdlePreview

----------------------------------------------------------------------------
(* Actions *)

\* one call read_csv_column_by_name(file_storage, column_name)
ExtractCall ==
    /\ pc = "extract"
    /\ Len(results) < MaxCalls
    /\ LET data == StreamRead(content, pos)
           rows == ParseTable(data)
       IN  /\ all_rows' = rows
           /\ results' = Append(results, ReadCsvColumn(rows, column_name))
    /\ pos' = 0
    /\ UNCHANGED <<content, column_name, overlayVars, previewVars, renderVars, boxVars, mergeVars,
                   requestVars, pc>>

\* build_overlay_vector from "if drawing:" on, for the drawing at hand
PlaceSymbol ==
    /\ pc = "overlay"
    /\ placed' = PlaceDrawing(drawing, qr_size_pts, x_pos, y_pos)
    /\ pc' = "overlay_done"
    /\ UNCHANGED <<drawing, extractVars, boxVars, mergeVars, requestVars,
                   previewVars, renderVars>>

\* place_qrs_on_pdf_stream up to the loop: the reader, the writer and the
\* comparison of the two lengths
MergeStart ==
    /\ pc = "merge_start"
    /\ pdf_pages' = ReaderPages(document)
    /\ writer_pages' = <<>>
    /\ page_index' = 0
    /\ IF LengthsDiffer(csv_rows, ReaderPages(document))
       THEN /\ merge_result' =
                  [kind |-> "error",
                   error |-> "CSV rows and PDF pages count must match."]
            /\ pc' = "merge_failed"
       ELSE /\ merge_result' = merge_result
            /\ pc' = "merge_loop"
    /\ UNCHANGED <<document, csv_rows, extractVars, overlayVars, previewVars, renderVars, boxVars,
                   requestVars>>

\* one iteration of "for row_data, page in zip(csv_rows, reader.pages)"
MergePage ==
    /\ pc = "merge_loop"
    /\ page_index < Len(pdf_pages)
    /\ LET k == page_index + 1
           done == ProcessPage(csv_rows[k], pdf_pages[k], qr_size_pts, x_pos, y_pos)
       IN  IF done.kind = "error"
           THEN /\ merge_result' = [kind |-> "error", error |-> done.error]
                /\ pc' = "merge_failed"
                /\ UNCHANGED <<pdf_pages, writer_pages, page_index>>
           ELSE /\ pdf_pages' = [pdf_pages EXCEPT ![k] = done.page]
                /\ writer_pages' = Append(writer_pages, done.page)
                /\ page_index' = k
                /\ UNCHANGED <<merge_result, pc>>
    /\ UNCHANGED <<document, csv_rows, extractVars, overlayVars, previewVars, renderVars, boxVars,
                   requestVars>>

\* place_qrs_on_pdf_stream after the loop: writer.write(out_buf); return
MergeFinish ==
    /\ pc = "merge_loop"
    /\ page_index = Len(pdf_pages)
    /\ merge_result' = [kind |-> "ok", pages |-> writer_pages]
    /\ pc' = "merge_done"
    /\ UNCHANGED <<document, pdf_pages, csv_rows, page_index, writer_pages,
                   extractVars, overlayVars, previewVars, renderVars, boxVars, requestVars>>

\* generate_endpoint up to its second try block: the uploaded files, the
\* column name and the three numbers
GenerateParse ==
    /\ pc = "generate"
    /\ LET csv_column == FormColumn(form.csv_column)
           qr_size == FormFloat(form.qr_size, DefaultQrSize)
           x == FormFloat(form.x_pos, DefaultPos)
           y == FormFloat(form.y_pos, DefaultPos)
       IN  IF ~form.pdf \/ ~form.csv
           THEN /\ response' = Status(400, "Missing files")
                /\ pc' = "responded"
                /\ UNCHANGED <<column_name, boxVars>>
           ELSE IF csv_column = <<>>
           THEN /\ response' = Status(400, "CSV column is required")
                /\ pc' = "responded"
                /\ UNCHANGED <<column_name, boxVars>>
           ELSE IF ~qr_size.ok \/ ~x.ok \/ ~y.ok
           THEN /\ response' = Status(400, "Invalid numeric inputs")
                /\ pc' = "responded"
                /\ UNCHANGED <<column_name, boxVars>>
           ELSE /\ column_name' = csv_column
                /\ qr_size_pts' = qr_size.value
                /\ x_pos' = x.value
                /\ y_pos' = y.value
                /\ pc' = "generate_extract"
                /\ UNCHANGED response
    /\ UNCHANGED <<content, pos, all_rows, results, overlayVars, previewVars, renderVars, mergeVars, form>>

\* generate_endpoint: csv_rows = read_csv_column_by_name(csv_file, csv_column)
\* and pdf.seek(0); a ValueError is answered with its message
GenerateExtract ==
    /\ pc = "generate_extract"
    /\ LET data == StreamRead(content, pos)
           rows == ParseTable(data)
           got == ReadCsvColumn(rows, column_name)
       IN  /\ all_rows' = rows
           /\ results' = Append(results, got)
           /\ IF got.kind = "error"
              THEN /\ response' = Status(400, got.error)
                   /\ pc' = "responded"
                   /\ UNCHANGED csv_rows
              ELSE /\ csv_rows' = got.values
                   /\ pc' = "merge_start"
                   /\ UNCHANGED response
    /\ pos' = 0
    /\ UNCHANGED <<content, column_name, overlayVars, previewVars, renderVars, boxVars, document,
                   pdf_pages, page_index, writer_pages, merge_result, form>>

\* generate_endpoint: send_file(out_buf, ...) or (str(exc), 400)
GenerateRespond ==
    /\ pc \in {"merge_done", "merge_failed"}
    /\ form # None
    /\ response' = IF merge_result.kind = "ok"
                   THEN Status(200, merge_result.pages)
                   ELSE Status(400, merge_result.error)
    /\ pc' = "responded"
    /\ UNCHANGED <<extractVars, overlayVars, previewVars, renderVars, boxVars, mergeVars, form>>

\* preview_qr_endpoint: the two int() calls stand before the try block, so
\* their ValueError is answered by the framework with status 500
PreviewQr ==
    /\ preview_form # None
    /\ preview_response = None
    /\ LET csv_column == FormColumn(preview_form.csv_column)
           page_num == FormInt(preview_form.page_num, 1)
           qr_size == FormInt(preview_form.qr_size, DefaultQrSize)
           data == StreamRead(content, pos)
           rows == ParseTable(data)
           got == ReadCsvColumn(rows, csv_column)
       IN  IF ~page_num.ok \/ ~qr_size.ok
           THEN /\ preview_response' = Status(500, "ValueError")
                /\ UNCHANGED extractVars
           ELSE IF ~preview_form.csv \/ csv_column = <<>>
           THEN /\ preview_response' = Status(400, "Missing CSV or column")
                /\ UNCHANGED extractVars
           ELSE /\ column_name' = csv_column
                /\ all_rows' = rows
                /\ results' = Append(results, got)
                /\ pos' = 0
                /\ preview_response' =
                       PreviewOfRows(got, page_num.value, qr_size.value)
                /\ UNCHANGED content
    /\ UNCHANGED <<preview_form, overlayVars, boxVars, mergeVars, requestVars,
                   renderVars, pc>>

\* previewBtn click: currentPage = 1; renderPreview()
ClickPreview ==
    /\ pc = "render_idle"
    /\ Len(results) < MaxRenders
    /\ ui' = [ui EXCEPT !.currentPage = 1]
    /\ pc' = "render_info"
    /\ UNCHANGED <<extractVars, overlayVars, boxVars, mergeVars, requestVars,
                   previewVars, view, page_rect, qr_rect>>

\* nextPageBtn click
ClickNext ==
    /\ pc = "render_idle"
    /\ Len(results) < MaxRenders
    /\ ui.currentPage < ui.totalPages
    /\ ui' = [ui EXCEPT !.currentPage = @ + 1]
    /\ pc' = "render_info"
    /\ UNCHANGED <<extractVars, overlayVars, boxVars, mergeVars, requestVars,
                   previewVars, view, page_rect, qr_rect>>

\* prevPageBtn click
ClickPrev ==
    /\ pc = "render_idle"
    /\ Len(results) < MaxRenders
    /\ ui.currentPage > 1
    /\ ui' = [ui EXCEPT !.currentPage = @ - 1]
    /\ pc' = "render_info"
    /\ UNCHANGED <<extractVars, overlayVars, boxVars, mergeVars, requestVars,
                   previewVars, view, page_rect, qr_rect>>

\* renderPreview up to the clearing of the canvas: getPdfInfo with its
\* request to preview_endpoint, then scale and offsets; a failed request
\* throws, and the catch block leaves the canvas as it was
GetPdfInfo ==
    /\ pc = "render_info"
    /\ LET res == PreviewEndpoint(ui.pdf, document)
           info == res.body
       IN  IF res.status # 200
           THEN /\ pc' = "render_idle"
                /\ UNCHANGED renderVars
           ELSE /\ ui' = [ui EXCEPT !.pdfWidth = info.width,
                                    !.pdfHeight = info.height,
                                    !.totalPages = info.page_count]
                /\ view' = ViewOf(info.width, info.height)
                /\ page_rect' = None
                /\ qr_rect' = None
                /\ pc' = "render_page"
    /\ UNCHANGED <<extractVars, overlayVars, boxVars, mergeVars, requestVars,
                   previewVars>>

\* loadPdfPage(currentPage) with its request to pdf_page_image, and the
\* drawing of the page image
LoadPdfPage ==
    /\ pc = "render_page"
    /\ LET res == PdfPageImage(ui.pdf, document, ui.currentPage)
       IN  page_rect' =
               IF res.status = 200
               THEN [page |-> res.body.page,
                     rect |-> [left |-> view.offsetX, top |-> view.offsetY,
                               width |-> view.scaledWidth,
                               height |-> view.scaledHeight]]
               ELSE page_rect
    /\ pc' = "render_load_qr"
    /\ UNCHANGED <<extractVars, overlayVars, boxVars, mergeVars, requestVars,
                   previewVars, ui, view, qr_rect>>

\* loadQrCode(currentPage) up to its request to preview_qr_endpoint
LoadQrCode ==
    /\ pc = "render_load_qr"
    /\ IF ~ui.csv \/ ui.column = <<>>
       THEN /\ pc' = "render_idle"
            /\ UNCHANGED previewVars
       ELSE /\ preview_form' = [csv |-> TRUE,
                                csv_column |-> Field(ui.column),
                                page_num |-> Field(NumberText(ui.currentPage)),
                                qr_size |-> Field(ui.qr_size)]
            /\ preview_response' = None
            /\ pc' = "render_wait_qr"
    /\ UNCHANGED <<extractVars, overlayVars, boxVars, mergeVars, requestVars,
                   renderVars>>

\* the rest of renderPreview: no symbol is drawn for a response that is not
\* ok, nor for the empty response (its image never loads)
DrawQr ==
    /\ pc = "render_wait_qr"
    /\ preview_response # None
    /\ LET qrSize == JsParseFloat(ui.qr_size, DefaultQrSize)
           x == JsParseFloat(ui.x_pos, DefaultPos)
           y == JsParseFloat(ui.y_pos, DefaultPos)
       IN  qr_rect' =
               IF preview_response.status = 200
               THEN [page |-> ui.currentPage,
                     rect |-> QrRectangle(view, qrSize.value, x.value, y.value)]
               ELSE qr_rect
    /\ pc' = "render_idle"
    /\ UNCHANGED <<extractVars, overlayVars, boxVars, mergeVars, requestVars,
                   previewVars, ui, view, page_rect>>

----------------------------------------------------------------------------
(* Specifications *)

NextExtract == ExtractCall

SpecExtract == InitExtract /\ [][NextExtract]_vars

NextOverlay == PlaceSymbol

SpecOverlay == InitOverlay /\ [][NextOverlay]_vars

NextMerge == MergeStart \/ MergePage \/ MergeFinish

SpecMerge == InitMerge /\ [][NextMerge]_vars

NextGenerate ==
    \/ GenerateParse
    \/ GenerateExtract
    \/ MergeStart
    \/ MergePage
    \/ MergeFinish
    \/ GenerateRespond

SpecGenerate == InitGenerate /\ [][NextGenerate]_vars

NextPreviewQr ==
    \/ PreviewQr
    \/ GenerateParse
    \/ GenerateExtract
    \/ MergeStart
    \/ MergePage
    \/ MergeFinish
    \/ GenerateRespond

SpecPreviewQr == InitPreviewQr /\ [][NextPreviewQr]_vars

NextRender ==
    \/ ClickPreview
    \/ ClickNext
    \/ ClickPrev
    \/ GetPdfInfo
    \/ LoadPdfPage
    \/ LoadQrCode
    \/ PreviewQr
    \/ DrawQr

SpecRender == InitRender /\ [][NextRender]_vars

Init == InitExtract \/ InitOverlay \/ InitMerge \/ InitGenerate

Next == NextExtract \/ NextOverlay \/ NextGenerate

Spec == Init /\ [][Next]_vars

----------------------------------------------------------------------------
(* Properties of the extractor *)

\* t is s without its leading and trailing whitespace, stated without Strip
IsTrimOf(t, s) ==
    \E i \in 0..Len(s) : \E j \in i..Len(s) :
        /\ t = SubSeq(s, i + 1, j)
        /\ \A k \in 1..i : s[k] \in Whitespace
        /\ \A k \in (j + 1)..Len(s) : s[k] \in Whitespace
        /\ t # <<>> => (t[1] \notin Whitespace /\ t[Len(t)] \notin Whitespace)

\* a and b are equal once both are trimmed (characters compared exactly)
SameTrimmed(a, b) ==
    \E i \in 0..Len(a) : \E j \in i..Len(a) :
        /\ IsTrimOf(SubSeq(a, i + 1, j), a)
        /\ IsTrimOf(SubSeq(a, i + 1, j), b)

Called == results # <<>>
LastResult == results[Len(results)]

\* the header cells (from 1) that the requested name matches
MatchingColumns ==
    IF all_rows = <<>> THEN {}
    ELSE { j \in 1..Len(all_rows[1]) : SameTrimmed(all_rows[1][j], column_name) }

ExampleTable ==
    << <<sName, sCode>>, << <<"A">>, s123 >>, << <<"B">>, <<>> >>, << <<"C">>, s456 >> >>

\* C3: for a table with a header row and N data rows whose requested column
\* resolves, the call returns exactly N values, each of them a string,
\* however many rows are empty, short or blank in that column.
C3_LengthEqualsDataRows ==
    (Called /\ all_rows # <<>> /\ MatchingColumns # {}) =>
        /\ LastResult.kind = "ok"
        /\ Len(LastResult.values) = Len(all_rows) - 1
        /\ \A k \in 1..(Len(all_rows) - 1) :
               /\ k \in DOMAIN LastResult.values
               /\ DOMAIN LastResult.values[k] = 1..Len(LastResult.values[k])

\* C3 witness: a call returned 2 values for 2 data rows of which one has no
\* cells and the other is shorter than the column index.
C3_Witness ==
    /\ Called /\ LastResult.kind = "ok"
    /\ Len(all_rows) = 3 /\ Len(LastResult.values) = 2
    /\ \E k \in 2..3 : all_rows[k] = <<>>
    /\ \E k \in 2..3 : Len(all_rows[k]) = 1 /\ LastResult.column_index = 1

\* C4: element k of the result is the empty string when data row k has no
\* cells or no cell at the resolved index, and otherwise that cell trimmed;
\* rows keep their order; the table Name,Code / A,123 / B, / C,456 with
\* column Code gives 123, (empty), 456.
C4_ValuePerRow ==
    (Called /\ LastResult.kind = "ok") =>
        /\ \A k \in 1..(Len(all_rows) - 1) :
               LET row == all_rows[k + 1]
                   c == LastResult.column_index
               IN  IF Len(row) = 0 \/ c >= Len(row)
                   THEN LastResult.values[k] = <<>>
                   ELSE IsTrimOf(LastResult.values[k], row[c + 1])
        /\ (all_rows = ExampleTable /\ column_name = sCode) =>
               LastResult.values = <<s123, <<>>, s456>>

\* C4 witness: the call on the example table has returned 123, (empty), 456.
C4_Witness ==
    /\ Called /\ LastResult.kind = "ok"
    /\ all_rows = ExampleTable /\ column_name = sCode
    /\ LastResult.values[2] = <<>>

\* C5: the column resolves exactly when some trimmed header cell equals the
\* trimmed requested name, compared case-sensitively; the first such column
\* is selected; otherwise the call fails with the column-not-found error and
\* returns no values.
C5_ColumnResolution ==
    (Called /\ all_rows # <<>>) =>
        /\ LastResult.kind = "ok" <=> MatchingColumns # {}
        /\ LastResult.kind = "ok" =>
               /\ (LastResult.column_index + 1) \in MatchingColumns
               /\ \A j \in MatchingColumns : LastResult.column_index + 1 <= j
        /\ LastResult.kind # "ok" =>
               /\ LastResult.error = "Column not found"
               /\ "values" \notin DOMAIN LastResult

\* C5 witness: 'Code ' resolved against the header Name,Code.
C5_Witness ==
    /\ Called /\ LastResult.kind = "ok"
    /\ column_name = sCodeTrail
    /\ all_rows # <<>> /\ all_rows[1] = <<sName, sCode>>
    /\ LastResult.column_index = 1

\* C10: two calls on the same stream with the same column name return the
\* same result, whatever the read position was before the first call.
C10_Idempotent ==
    Len(results) >= 2 => results[1] = results[2]

----------------------------------------------------------------------------
(* Properties of the overlay compositor *)

Placed == pc = "overlay_done"

----------------------------------------------------------------------------
(* Properties of the document merger *)

\* the value has a character that is not whitespace
NonBlank(value) == \E k \in 1..Len(value) : value[k] \notin Whitespace

\* the page carries an overlay on which a symbol was drawn
HasVisibleOverlay(page) ==
    \E k \in 1..Len(page.overlays) : page.overlays[k].symbol.drawn

Untouched(pages) == \A k \in 1..Len(pages) : pages[k].overlays = <<>>

\* C1: for a document of P pages and P column values, the document merge
\* returns has exactly P pages, output page i being source page i, and page
\* i carries a visible overlay (one, of the page's size, encoding value i)
\* exactly when value i is not empty after trimming.
C1_PagesAndOverlays ==
    pc = "merge_done" =>
        /\ merge_result.kind = "ok"
        /\ Len(csv_rows) = Len(document)
        /\ Len(merge_result.pages) = Len(document)
        /\ \A i \in 1..Len(document) :
               LET page == merge_result.pages[i]
               IN  /\ page.number = i
                   /\ <<page.width, page.height>> = document[i]
                   /\ HasVisibleOverlay(page) <=> NonBlank(csv_rows[i])
                   /\ NonBlank(csv_rows[i]) =>
                          /\ Len(page.overlays) = 1
                          /\ page.overlays[1].payload = csv_rows[i]
                          /\ page.overlays[1].pagesize = document[i]
                   /\ ~NonBlank(csv_rows[i]) => page.overlays = <<>>

\* C1 witness: a 3-page document merged with the values 123, (blank), 456:
\* three pages out, the second without overlay, the others with one.
C1_Witness ==
    /\ pc = "merge_done"
    /\ Len(document) = 3 /\ document[1] # document[2]
    /\ csv_rows = <<s123, sBlank, s456Padded>>
    /\ Len(merge_result.pages) = 3
    /\ merge_result.pages[2].overlays = <<>>
    /\ HasVisibleOverlay(merge_result.pages[1])
    /\ HasVisibleOverlay(merge_result.pages[3])

\* C2: when the number of column values differs from the number of pages,
\* merge fails with the row-count error before any page is overlaid, merged
\* in place or added to the output, and returns no document.
C2_RowCountMismatch ==
    (Len(csv_rows) # Len(document) /\ pc # "merge_start") =>
        /\ pc = "merge_failed"
        /\ merge_result.kind = "error"
        /\ merge_result.error = "CSV rows and PDF pages count must match."
        /\ "pages" \notin DOMAIN merge_result
        /\ page_index = 0
        /\ writer_pages = <<>>
        /\ Untouched(pdf_pages)

\* C2 witness: two values for three pages, and merge has failed.
C2_Witness ==
    /\ pc = "merge_failed"
    /\ Len(csv_rows) = 2 /\ Len(document) = 3
    /\ NonBlank(csv_rows[1])

\* C6: when the overlay of page i cannot be built, merge aborts with an
\* error that identifies page index i and returns no document; and no page
\* with a non-empty payload is emitted without an overlay.
C6_AllOrNothing ==
    /\ (pc = "merge_failed" /\ Len(csv_rows) = Len(document)) =>
           /\ "pages" \notin DOMAIN merge_result
           /\ "page_index" \in DOMAIN merge_result
           /\ merge_result.page_index = page_index
    /\ \A i \in 1..Len(writer_pages) :
           NonBlank(csv_rows[i]) => HasVisibleOverlay(writer_pages[i])

----------------------------------------------------------------------------
(* Properties of the generate handler *)

\* the request carries both files and a column name
WellFormedRequest ==
    /\ form.pdf /\ form.csv
    /\ form.csv_column.present /\ NonBlank(form.csv_column.text)

\* the box size, x or y of the request is not a number, or the box size is
\* not positive
InvalidParameter ==
    \/ ~FormFloat(form.qr_size, DefaultQrSize).ok
    \/ ~FormFloat(form.x_pos, DefaultPos).ok
    \/ ~FormFloat(form.y_pos, DefaultPos).ok
    \/ FormFloat(form.qr_size, DefaultQrSize).value <= 0

\* C7: a request whose box size, x or y is non-numeric or out of range (a
\* zero or negative box size) is rejected with the invalid-parameter error
\* before the table is extracted or a page processed, and gets no document.
C7_InvalidParameterRejected ==
    (form # None /\ WellFormedRequest /\ InvalidParameter) =>
        /\ pc \in {"generate", "responded"}
        /\ results = <<>>
        /\ pdf_pages = <<>>
        /\ pc = "responded" => response = Status(400, "Invalid numeric inputs")

----------------------------------------------------------------------------
(* Properties of the symbol preview *)

PreviewPage == FormInt(preview_form.page_num, 1)

\* the preview request reached the table, and its column resolves
PreviewReadTable ==
    /\ preview_form # None /\ preview_response # None
    /\ preview_form.csv
    /\ PreviewPage.ok
    /\ all_rows # <<>> /\ MatchingColumns # {}

\* C11: for a page number n in 1..N (N data rows) the payload the preview
\* encodes is the value merge pairs with output page n, the preview answers
\* with the empty response exactly when merge puts no overlay on page n,
\* and a page number outside 1..N is rejected.
C11_PreviewBindsLikeMerge ==
    /\ (PreviewReadTable /\ pc = "responded" /\ response.status = 200
           /\ PreviewPage.value \in 1..(Len(all_rows) - 1)) =>
           LET n == PreviewPage.value
               page == response.body[n]
           IN  /\ preview_response.status \in {200, 204, 400}
               /\ preview_response.status = 200 =>
                      /\ preview_response.body.payload = csv_rows[n]
                      /\ page.overlays[1].payload = preview_response.body.payload
               /\ preview_response.status = 204 <=> ~HasVisibleOverlay(page)
               /\ preview_response.status = 400 =>
                      FormInt(preview_form.qr_size, DefaultQrSize).value <= 0
    /\ (PreviewReadTable /\ PreviewPage.value \notin 1..(Len(all_rows) - 1)) =>
           preview_response = Status(400, "Invalid page number")

\* C11 witness: page 3 of the example table previewed and generated: both
\* carry 456; and the preview of page 2 would be empty.
C11_Witness ==
    /\ PreviewReadTable /\ pc = "responded" /\ response.status = 200
    /\ PreviewPage.value = 3
    /\ preview_response.status = 200
    /\ preview_response.body.payload = s456
    /\ response.body[3].overlays[1].payload = s456
    /\ response.body[2].overlays = <<>>

----------------------------------------------------------------------------
(* Properties of the preview's placement *)

\* the page-to-canvas mapping of a page of the given size (uniform scale,
\* centring offset, one flip of the y axis with the page's own height),
\* applied to the page-space box [x, x+boxSize] x [y, y+boxSize]
BoxOnCanvas(size, boxSize, x, y) ==
    LET w == size[1]
        h == size[2]
        s == RMin(Rat(CanvasWidth, w), Rat(CanvasHeight, h))
        offX == RHalf(RSub(RInt(CanvasWidth), RMul(RInt(w), s)))
        offY == RHalf(RSub(RInt(CanvasHeight), RMul(RInt(h), s)))
    IN  [left |-> RAdd(offX, RMul(RInt(x), s)),
         top |-> RAdd(offY, RMul(RInt(h - (y + boxSize)), s)),
         width |-> RMul(RInt(boxSize), s),
         height |-> RMul(RInt(boxSize), s)]

\* the box of the inputs of the page, as generate would receive them
UiBoxOnCanvas(size) ==
    BoxOnCanvas(size, JsParseFloat(ui.qr_size, DefaultQrSize).value,
                JsParseFloat(ui.x_pos, DefaultPos).value,
                JsParseFloat(ui.y_pos, DefaultPos).value)

QrDrawn == pc = "render_idle" /\ qr_rect # None

\* C12: on every page n, the canvas rectangle in which the symbol is drawn
\* is the image, under page n's own page-to-canvas mapping, of the box merge
\* uses on page n, also when the pages of the document differ in size.
C12_PreviewAgreesWithMerge ==
    QrDrawn => qr_rect.rect = UiBoxOnCanvas(document[qr_rect.page])

\* on a page of the size of the first page the rectangle is that image
FirstPageSizeAgrees ==
    (QrDrawn /\ document[qr_rect.page] = document[1]) =>
        qr_rect.rect = UiBoxOnCanvas(document[qr_rect.page])

====
